---- MODULE Spec2Model ----
(***************************************************************************)
(* balancebeam (proj-2): a load-balancing reverse proxy.                   *)
(*                                                                         *)
(* Tasks: the accept loop of main, one handle_connection task per          *)
(* accepted connection, the active_health_check task and the               *)
(* reset_rates_with_fixed_window task.  Every step below is one            *)
(* lock-protected access to shared state (a liveness flag or the rate map) *)
(* or one network operation; tasks interleave between steps, as they do on *)
(* the multi-threaded tokio runtime at every .await.                       *)
(*                                                                         *)
(* Network outcomes (connect, read, write succeed or fail; what the peer   *)
(* sends) are chosen by the environment.  peer_addr() is taken to succeed. *)
(***************************************************************************)
EXTENDS Integers, Sequences, FiniteSets, TLC

VARIABLES
    threshold,   \* ProxyState.max_requests_per_minute
    alive,       \* Upstream.alive, per upstream
    rates,       \* ProxyState.rates: a map, DOMAIN rates = the keys present
    listener,    \* the accept loop of main
    hcPc, hcIdx, \* active_health_check: position, upstream being probed
    probed,      \* history: outcome class of each upstream's probe in this cycle
    resetPc,     \* reset_rates_with_fixed_window: position
    pc,          \* handle_connection: position, per connection
    ip,          \* client_ip of the connection
    scanIdx,     \* exist_alive_upstream: loop index
    cnt,         \* exist_alive_upstream: cnt
    chosen,      \* connect_to_upstream: upstream_idx
    noneAlive,   \* history: no flag was alive since this scan began
    conn,        \* upstream_conn: the upstream connected to (0 = none)
    nreq,        \* requests read from the client so far
    resp,        \* the response about to be passed to send_response
    fwd,         \* history: requests written to the upstream, in order
    got,         \* history: responses read from the upstream, in order
    sent,        \* history: responses passed to send_response, in order
    admitted,    \* history: admissions per IP since the last reset
    connErr,     \* history: read_from_stream returned ConnectionError on the connection
    relayLost,   \* history: the write of the response just relayed failed
    fails,       \* history: failed connects of the current connect_to_upstream call
    held,        \* per handler: the locks its guards still hold where it is suspended
    bgHeld,      \* the same for the health checker and the reset task
    server,      \* per upstream: how the server behaves towards connects and probes
    debugger,    \* deet: where Debugger::run is
    inferior,    \* deet: Debugger::inferior, 0 for None, else the child's pid
    child,       \* deet: per pid, the state of the process
    spawned,     \* deet: the processes started so far
    breakpoints  \* deet: Debugger::breakpoints

vars == <<threshold, alive, rates, listener, hcPc, hcIdx, probed, resetPc,
          pc, ip, scanIdx, cnt, chosen, noneAlive, conn, nreq, resp,
          fwd, got, sent, admitted, connErr, relayLost, fails,
          held, bgHeld, server, debugger, inferior, child, spawned, breakpoints>>

\* the variables of balancebeam and those of deet
bbvars == <<threshold, alive, rates, listener, hcPc, hcIdx, probed, resetPc,
            pc, ip, scanIdx, cnt, chosen, noneAlive, conn, nreq, resp,
            fwd, got, sent, admitted, connErr, relayLost, fails,
            held, bgHeld, server>>

dvars == <<debugger, inferior, child, spawned, breakpoints>>

hvars == <<pc, ip, scanIdx, cnt, chosen, noneAlive, conn, nreq, resp,
           fwd, got, sent, connErr, relayLost, fails, held>>

----------------------------------------------------------------------------
(* Bounds *)

NumUpstreams == 2
MaxConns == 2
NumIPs == 2
MaxThreshold == 1
MaxReqs == 2
MaxRuns == 3
MaxAddrs == 2

Upstreams == 1..NumUpstreams
Conns == 1..MaxConns
IPs == 1..NumIPs
Pids == 1..MaxRuns
Addrs == 1..MaxAddrs

----------------------------------------------------------------------------
(* Messages *)

NoResp == [st |-> 0, req |-> 0, from |-> 0]

\* response::make_http_error(status), answering request n of the connection
make_http_error(st, n) == [st |-> st, req |-> n, from |-> 0]

\* what an upstream can answer
UpstreamStatuses == {200, 500}

\* results of request::read_from_stream
ReadOutcomes == {"ok", "eof", "conn_err", "incomplete", "malformed",
                 "invalid_cl", "cl_mismatch", "too_large"}

\* results of one probe of active_health_check
ProbeOutcomes == {"connect_fail", "write_fail", "read_fail", "non200", "ok200"}

\* lines 330-337: the status answered to a request that could not be read
ErrorStatus(outcome) ==
    CASE outcome \in {"incomplete", "malformed", "invalid_cl", "cl_mismatch"} -> 400
      [] outcome = "too_large" -> 413
      [] outcome = "conn_err" -> 503
      [] OTHER -> 0

Put(f, k, v) == [x \in DOMAIN f \cup {k} |-> IF x = k THEN v ELSE f[x]]

TotalReqs == LET S[h \in 0..MaxConns] == IF h = 0 THEN 0 ELSE S[h - 1] + nreq[h]
             IN S[MaxConns]

\* An upstream server refuses every connection ("down"), accepts every
\* connection and answers every probe with 200 ("healthy"), or does either
\* from one time to the next ("any").
ServerModes == {"any", "down", "healthy"}

\* lines 169 and 243: the results TcpStream::connect can have on upstream u
ConnectResults(u) ==
    CASE server[u] = "down" -> {FALSE}
      [] server[u] = "healthy" -> {TRUE}
      [] OTHER -> BOOLEAN

\* lines 169-215: the outcomes one probe of upstream u can have
ProbeResults(u) ==
    CASE server[u] = "down" -> {"connect_fail"}
      [] server[u] = "healthy" -> {"ok200"}
      [] OTHER -> ProbeOutcomes

\* the guard of line 297 bound to a name that lives across the insert of line 298
HeldAfter_GuardKept(site) == IF site = "contains_key" THEN {"rates"} ELSE {}

\* The locks a task still holds when it reaches the next .await after a lock
\* site: every guard is a temporary or a local of a function without a later
\* .await (lines 75, 79-80, 276-282, 287-289, 297, 298), so none.
HeldAfter(site) == {}

----------------------------------------------------------------------------
(* Startup: main, lines 103-146 *)

Init ==
    /\ threshold \in 0..MaxThreshold
    /\ alive = [u \in Upstreams |-> TRUE]
    /\ rates = [k \in {} |-> 0]
    /\ listener = "accepting"
    /\ hcPc = "sleep"
    /\ hcIdx = 1
    /\ probed = [u \in Upstreams |-> "none"]
    /\ resetPc = IF threshold > 0 THEN "sleep" ELSE "not_spawned"
    /\ pc = [h \in Conns |-> "unborn"]
    /\ ip = [h \in Conns |-> 1]
    /\ scanIdx = [h \in Conns |-> 1]
    /\ cnt = [h \in Conns |-> 0]
    /\ chosen = [h \in Conns |-> 1]
    /\ noneAlive = [h \in Conns |-> FALSE]
    /\ conn = [h \in Conns |-> 0]
    /\ nreq = [h \in Conns |-> 0]
    /\ resp = [h \in Conns |-> NoResp]
    /\ fwd = [h \in Conns |-> <<>>]
    /\ got = [h \in Conns |-> <<>>]
    /\ sent = [h \in Conns |-> <<>>]
    /\ admitted = [i \in IPs |-> 0]
    /\ connErr = [h \in Conns |-> FALSE]
    /\ relayLost = [h \in Conns |-> FALSE]
    /\ fails = [h \in Conns |-> 0]
    /\ held = [h \in Conns |-> {}]
    /\ bgHeld = [hc |-> {}, reset |-> {}]
    /\ server = [u \in Upstreams |-> "any"]
    /\ debugger = "prompt"
    /\ inferior = 0
    /\ child = [p \in Pids |-> "unborn"]
    /\ spawned = 0
    /\ breakpoints = {}

----------------------------------------------------------------------------
(* The accept loop: main, lines 149-158 *)

\* the loop left on a failed accept (while let Some(Ok(stream)) = ...)
AfterAcceptError_Stops == "stopped"

\* what the loop does after incoming.next() yielded an error
AfterAcceptError == "accepting"

\* One turn of the loop: an accepted stream spawns a handler, a failed accept
\* is skipped.  Connections are numbered in the order of their acceptance and
\* client addresses in the order of their first appearance.
AcceptConn ==
    /\ UNCHANGED dvars
    /\ listener = "accepting"
    /\ \E ok \in BOOLEAN :
         IF ok
         THEN \E h \in Conns, i \in IPs :
                /\ pc[h] = "unborn"
                /\ i <= h
                /\ \A g \in Conns : g < h => pc[g] # "unborn"
                /\ pc' = [pc EXCEPT ![h] = "check_key"]
                /\ ip' = [ip EXCEPT ![h] = i]
                /\ UNCHANGED listener
         ELSE /\ listener' = AfterAcceptError
              /\ UNCHANGED <<pc, ip>>
    /\ UNCHANGED <<threshold, alive, rates, hcPc, hcIdx, probed, resetPc,
                   scanIdx, cnt, chosen, noneAlive, conn, nreq, resp,
                   fwd, got, sent, admitted, connErr, relayLost, fails,
                   held, bgHeld, server>>

----------------------------------------------------------------------------
(* active_health_check, lines 161-219 *)

\* the status guard of line 204 forgotten: any well-formed response revives
ProbeVerdict_AnyResponse(o) == o \in {"ok200", "non200"}

\* lines 170-215: the flag a probe's outcome writes
ProbeVerdict(o) == o = "ok200"

\* the iterator of line 167 never advancing
NextUpstream_Repeats(i) == i

\* line 167: the for loop goes through the upstreams in the order of the list
NextUpstream(i) == i + 1

\* history: a flag turned alive ends every "none alive since the scan began"
SeenAlive(newAlive) ==
    [h \in Conns |-> noneAlive[h] /\ \A u \in Upstreams : ~newAlive[u]]

\* lines 163-166: the interval elapses and a cycle begins
HcWake ==
    /\ UNCHANGED dvars
    /\ hcPc = "sleep"
    /\ hcPc' = "probe"
    /\ hcIdx' = 1
    /\ UNCHANGED <<threshold, alive, rates, listener, probed, resetPc, admitted, bgHeld,
                   server>>
    /\ UNCHANGED hvars

\* lines 167-217, one iteration: probe upstream hcIdx and write its flag
HcProbe ==
    /\ UNCHANGED dvars
    /\ hcPc = "probe"
    /\ \E o \in ProbeResults(hcIdx) :
         /\ alive' = [alive EXCEPT ![hcIdx] = ProbeVerdict(o)]
         /\ probed' = [probed EXCEPT ![hcIdx] = IF o = "ok200" THEN "ok" ELSE "fail"]
    /\ noneAlive' = SeenAlive(alive')
    /\ bgHeld' = [bgHeld EXCEPT !.hc = HeldAfter("set_alive")]
    /\ IF hcIdx < NumUpstreams
       THEN hcIdx' = NextUpstream(hcIdx) /\ hcPc' = "probe"
       ELSE hcIdx' = hcIdx /\ hcPc' = "cycle_end"
    /\ UNCHANGED <<threshold, rates, listener, resetPc, admitted, server>>
    /\ UNCHANGED <<pc, ip, scanIdx, cnt, chosen, conn, nreq, resp, fwd, got, sent,
                   connErr, relayLost, fails, held>>

\* the loop of line 162 left out: the task ends after one cycle
AfterCycle_Returns == "returned"

\* lines 162 and 218: after the for loop the outer loop starts over
AfterCycle == "sleep"

\* lines 217-218 and 162: the for loop is exhausted, back to the delay
HcLoop ==
    /\ UNCHANGED dvars
    /\ hcPc = "cycle_end"
    /\ hcPc' = AfterCycle
    /\ probed' = [u \in Upstreams |-> "none"]
    /\ UNCHANGED <<threshold, alive, rates, listener, hcIdx, resetPc, admitted, bgHeld,
                   server>>
    /\ UNCHANGED hvars

----------------------------------------------------------------------------
(* reset_rates_with_fixed_window, lines 285-290 *)

\* where the task is after the reset of line 287-289: the function's end
AfterReset == "returned"

\* the map emptied instead of its values zeroed
Zeroed_Cleared(r) == [k \in {} |-> 0]

\* lines 287-289: values_mut, every count set to 0, every key kept
Zeroed(r) == [k \in DOMAIN r |-> 0]

\* lines 286-289: the 60 seconds elapse, then every count goes back to 0
ResetRates ==
    /\ UNCHANGED dvars
    /\ resetPc = "sleep"
    /\ rates' = Zeroed(rates)
    /\ admitted' = [i \in IPs |-> 0]
    /\ resetPc' = AfterReset
    /\ bgHeld' = [bgHeld EXCEPT !.reset = HeldAfter("reset")]
    /\ UNCHANGED <<threshold, alive, listener, hcPc, hcIdx, probed, server>>
    /\ UNCHANGED hvars

----------------------------------------------------------------------------
(* handle_connection, lines 292-390 *)

shared == <<threshold, listener, hcPc, hcIdx, probed, resetPc, bgHeld, server>>

\* entering exist_alive_upstream (line 234) at the top of the loop of line 233
StartScan(h, flags) ==
    /\ scanIdx' = [scanIdx EXCEPT ![h] = 1]
    /\ cnt' = [cnt EXCEPT ![h] = 0]
    /\ noneAlive' = [noneAlive EXCEPT ![h] = \A u \in Upstreams : ~flags[u]]

\* line 297: contains_key under the read lock, released at the end of the condition
CheckKey(h) ==
    /\ UNCHANGED dvars
    /\ pc[h] = "check_key"
    /\ IF ip[h] \in DOMAIN rates
       THEN /\ pc' = [pc EXCEPT ![h] = "scan"]
            /\ StartScan(h, alive)
       ELSE /\ pc' = [pc EXCEPT ![h] = "insert"]
            /\ UNCHANGED <<scanIdx, cnt, noneAlive>>
    /\ UNCHANGED <<alive, rates, admitted>>
    /\ UNCHANGED shared
    /\ held' = [held EXCEPT ![h] = HeldAfter("contains_key")]
    /\ UNCHANGED <<ip, chosen, conn, nreq, resp, fwd, got, sent,
                   connErr, relayLost, fails>>

\* line 298: insert(client_ip, 0) under the write lock
InsertKey(h) ==
    /\ UNCHANGED dvars
    /\ pc[h] = "insert"
    /\ rates' = Put(rates, ip[h], 0)
    /\ pc' = [pc EXCEPT ![h] = "scan"]
    /\ StartScan(h, alive)
    /\ UNCHANGED <<alive, admitted>>
    /\ UNCHANGED shared
    /\ held' = [held EXCEPT ![h] = HeldAfter("insert")]
    /\ UNCHANGED <<ip, chosen, conn, nreq, resp, fwd, got, sent,
                   connErr, relayLost, fails>>

\* lines 223-229: one is_alive read of the loop; after the last one the match
ScanStep(h) ==
    /\ UNCHANGED dvars
    /\ pc[h] = "scan"
    /\ LET c == cnt[h] + (IF alive[scanIdx[h]] THEN 1 ELSE 0) IN
         /\ cnt' = [cnt EXCEPT ![h] = c]
         /\ IF scanIdx[h] < NumUpstreams
            THEN /\ scanIdx' = [scanIdx EXCEPT ![h] = scanIdx[h] + 1]
                 /\ UNCHANGED pc
            ELSE /\ UNCHANGED scanIdx
                 /\ pc' = [pc EXCEPT ![h] = IF c = 0 THEN "all_down" ELSE "pick"]
    /\ UNCHANGED <<alive, rates, admitted>>
    /\ UNCHANGED shared
    /\ held' = [held EXCEPT ![h] = HeldAfter("is_alive")]
    /\ UNCHANGED <<ip, chosen, noneAlive, conn, nreq, resp, fwd, got, sent,
                   connErr, relayLost, fails>>

\* the re-check of line 239 left out: any index drawn is tried
IsCandidate_Unchecked(u) == TRUE

\* line 239: whether the upstream drawn is a candidate
IsCandidate(u) == alive[u]

\* lines 236-241: draw an index, read its flag, start over when it is dead
Pick(h) ==
    /\ UNCHANGED dvars
    /\ pc[h] = "pick"
    /\ \E idx \in Upstreams :
         /\ chosen' = [chosen EXCEPT ![h] = idx]
         /\ IF IsCandidate(idx)
            THEN /\ pc' = [pc EXCEPT ![h] = "connect"]
                 /\ UNCHANGED <<scanIdx, cnt, noneAlive>>
            ELSE /\ pc' = [pc EXCEPT ![h] = "scan"]
                 /\ StartScan(h, alive)
    /\ UNCHANGED <<alive, rates, admitted>>
    /\ UNCHANGED shared
    /\ held' = [held EXCEPT ![h] = HeldAfter("is_alive")]
    /\ UNCHANGED <<ip, conn, nreq, resp, fwd, got, sent,
                   connErr, relayLost, fails>>

\* the set_alive(false) of line 247 left out
MarkDead_Forgotten(flags, u) == flags

\* line 247 written set_alive(true)
MarkDead_Revives(flags, u) == [flags EXCEPT ![u] = TRUE]

\* line 247: upstream.set_alive(false)
MarkDead(flags, u) == [flags EXCEPT ![u] = FALSE]

\* lines 243-249: TcpStream::connect; a failure writes the flag and loops
Connect(h) ==
    /\ UNCHANGED dvars
    /\ pc[h] = "connect"
    /\ \E ok \in ConnectResults(chosen[h]) :
         IF ok
         THEN /\ conn' = [conn EXCEPT ![h] = chosen[h]]
              /\ pc' = [pc EXCEPT ![h] = "read_req"]
              /\ fails' = [fails EXCEPT ![h] = 0]
              /\ UNCHANGED <<alive, scanIdx, cnt, noneAlive, held>>
         ELSE /\ alive' = MarkDead(alive, chosen[h])
              /\ pc' = [pc EXCEPT ![h] = "scan"]
              /\ StartScan(h, alive')
              /\ fails' = [fails EXCEPT ![h] =
                             IF fails[h] <= NumUpstreams THEN fails[h] + 1 ELSE fails[h]]
              /\ held' = [held EXCEPT ![h] = HeldAfter("set_alive")]
              /\ UNCHANGED conn
    /\ UNCHANGED <<rates, admitted>>
    /\ UNCHANGED shared
    /\ UNCHANGED <<ip, chosen, nreq, resp, fwd, got, sent,
                   connErr, relayLost>>

\* the return of line 307 left out: the handler falls into the serving loop
AfterAllDown_FallsThrough == "read_req"

\* lines 304-308: where the handler goes after answering connect_to_upstream's Err
AfterAllDown == "closed"

\* lines 251-257 and 304-308: no upstream alive: answer 502 and return
AllDown(h) ==
    /\ UNCHANGED dvars
    /\ pc[h] = "all_down"
    /\ sent' = [sent EXCEPT ![h] = Append(sent[h], make_http_error(502, 0))]
    /\ pc' = [pc EXCEPT ![h] = AfterAllDown]
    /\ UNCHANGED <<alive, rates, admitted>>
    /\ UNCHANGED shared
    /\ fails' = [fails EXCEPT ![h] = 0]
    /\ UNCHANGED <<ip, scanIdx, cnt, chosen, noneAlive, conn, nreq, resp, fwd, got,
                   connErr, relayLost, held>>

\* the test of line 350 reduced to its right operand
RateLimited_Always(t) == TRUE

\* line 350, left operand: whether the limiter is consulted at all
RateLimited(t) == t > 0

\* lines 279-282: the verdict on the incremented count
WithinLimit(rate, t) == ~(rate > t)

\* the arm of lines 324-327 missing: a ConnectionError reaches the arm of line 328
ClosesSilently_EofOnly(o) == o = "eof"

\* lines 319-327: the results on which the handler returns without an answer
ClosesSilently(o) == o \in {"eof", "conn_err"}

\* line 316: read_from_stream on the client connection.  A client that has
\* used up the requests of the model can only hang up.
ReadRequest(h) ==
    /\ UNCHANGED dvars
    /\ pc[h] = "read_req"
    /\ \E o \in ReadOutcomes :
         /\ o \notin {"eof", "conn_err"} => TotalReqs < MaxReqs
         /\ CASE o = "ok" ->
                   /\ nreq' = [nreq EXCEPT ![h] = nreq[h] + 1]
                   /\ pc' = [pc EXCEPT ![h] = "check_rate"]
                   /\ UNCHANGED resp
              [] o # "ok" /\ ClosesSilently(o) ->
                   /\ pc' = [pc EXCEPT ![h] = "closed"]
                   /\ UNCHANGED <<nreq, resp>>
              [] OTHER ->
                   /\ nreq' = [nreq EXCEPT ![h] = IF o = "conn_err" THEN nreq[h] ELSE nreq[h] + 1]
                   /\ resp' = [resp EXCEPT ![h] = make_http_error(ErrorStatus(o), nreq'[h])]
                   /\ pc' = [pc EXCEPT ![h] = "send_bad_request"]
         /\ connErr' = [connErr EXCEPT ![h] = connErr[h] \/ o = "conn_err"]
    /\ relayLost' = [relayLost EXCEPT ![h] = FALSE]
    /\ UNCHANGED <<alive, rates, admitted>>
    /\ UNCHANGED shared
    /\ UNCHANGED <<ip, scanIdx, cnt, chosen, noneAlive, conn, fwd, got, sent,
                   fails, held>>

\* line 350 with update_rate_and_check, lines 275-283, under the write lock
CheckRate(h) ==
    /\ UNCHANGED dvars
    /\ pc[h] = "check_rate"
    /\ IF RateLimited(threshold)
       THEN IF ip[h] \in DOMAIN rates
            THEN LET rate == rates[ip[h]] + 1 IN
                   /\ rates' = [rates EXCEPT ![ip[h]] = rate]
                   /\ IF WithinLimit(rate, threshold)
                      THEN /\ pc' = [pc EXCEPT ![h] = "forward"]
                           /\ admitted' = [admitted EXCEPT ![ip[h]] = admitted[ip[h]] + 1]
                           /\ UNCHANGED resp
                      ELSE /\ pc' = [pc EXCEPT ![h] = "send_429"]
                           /\ resp' = [resp EXCEPT ![h] = make_http_error(429, nreq[h])]
                           /\ UNCHANGED admitted
            ELSE \* line 277: unwrap of a missing entry
                 /\ pc' = [pc EXCEPT ![h] = "panicked"]
                 /\ UNCHANGED <<rates, admitted, resp>>
       ELSE /\ pc' = [pc EXCEPT ![h] = "forward"]
            /\ UNCHANGED <<rates, admitted, resp>>
    /\ UNCHANGED alive
    /\ UNCHANGED shared
    /\ held' = [held EXCEPT ![h] = HeldAfter("update_rate")]
    /\ UNCHANGED <<ip, scanIdx, cnt, chosen, noneAlive, conn, nreq, fwd, got, sent,
                   connErr, relayLost, fails>>

\* a live upstream looked up anew for every exchange
upstream_conn_Reselected(h) ==
    IF \E u \in Upstreams : u # conn[h] /\ alive[u]
    THEN CHOOSE u \in Upstreams : u # conn[h] /\ alive[u]
    ELSE conn[h]

\* lines 302-310: the peer of upstream_conn, the stream that lines 363 and
\* 376 write to and read from
upstream_conn(h) == conn[h]

\* lines 360-373: write the request to the upstream connection
Forward(h) ==
    /\ UNCHANGED dvars
    /\ pc[h] = "forward"
    /\ \E ok \in BOOLEAN :
         IF ok
         THEN /\ fwd' = [fwd EXCEPT ![h] = Append(fwd[h], nreq[h])]
              /\ pc' = [pc EXCEPT ![h] = "read_resp"]
              /\ UNCHANGED resp
         ELSE /\ resp' = [resp EXCEPT ![h] = make_http_error(502, nreq[h])]
              /\ pc' = [pc EXCEPT ![h] = "send_502"]
              /\ UNCHANGED fwd
    /\ UNCHANGED <<alive, rates, admitted>>
    /\ UNCHANGED shared
    /\ UNCHANGED <<ip, scanIdx, cnt, chosen, noneAlive, conn, nreq, got, sent,
                   connErr, relayLost, fails, held>>

\* lines 376-385: read the next response on the upstream connection.  The
\* upstream answers the requests written to it in order, so the response read
\* answers the oldest request whose response has not been read.
ReadResponse(h) ==
    /\ UNCHANGED dvars
    /\ pc[h] = "read_resp"
    /\ \E ok \in BOOLEAN, st \in UpstreamStatuses :
         IF ok
         THEN LET r == [st |-> st, req |-> fwd[h][Len(got[h]) + 1],
                       from |-> upstream_conn(h)] IN
                /\ resp' = [resp EXCEPT ![h] = r]
                /\ got' = [got EXCEPT ![h] = Append(got[h], r)]
                /\ pc' = [pc EXCEPT ![h] = "relay"]
         ELSE /\ resp' = [resp EXCEPT ![h] = make_http_error(502, nreq[h])]
              /\ pc' = [pc EXCEPT ![h] = "send_502"]
              /\ UNCHANGED got
    /\ UNCHANGED <<alive, rates, admitted>>
    /\ UNCHANGED shared
    /\ UNCHANGED <<ip, scanIdx, cnt, chosen, noneAlive, conn, nreq, fwd, sent,
                   connErr, relayLost, fails, held>>

\* an upstream error status replaced by the proxy's own 502
Relayed_Masked(r) == IF r.st = 200 THEN r ELSE make_http_error(502, r.req)

\* line 387: what is passed to send_response for the response read
Relayed(r) == r

\* the continue of line 354 left out: the rejected request is forwarded
AfterReject_Forwards == "forward"
\* the returns of lines 371, 383 turned into continue
AfterUpstreamError_Continues == "read_req"

\* lines 387-389: after the relay the loop reads the next request
AfterRelay == "read_req"

\* the continue of line 339 turned into return
AfterBadRequest_Closes == "closed"

\* lines 339, 354: the loop goes on after an error answer or a 429
AfterBadRequest == "read_req"
AfterReject == "read_req"
\* lines 371, 383: return after the 502 of a failed write or read
AfterUpstreamError == "closed"

SendPcs == {"send_bad_request", "send_429", "send_502", "relay"}

\* send_response, lines 262-273, at its call sites of lines 338, 352, 370,
\* 382 and 387.  Nothing is returned: a failed write (line 269) is logged and
\* changes nothing in the handler.
SendResponse(h) ==
    /\ UNCHANGED dvars
    /\ pc[h] \in SendPcs
    /\ sent' = [sent EXCEPT ![h] =
                  Append(sent[h], IF pc[h] = "relay" THEN Relayed(resp[h]) ELSE resp[h])]
    /\ \E ok \in BOOLEAN :
         relayLost' = [relayLost EXCEPT ![h] = pc[h] = "relay" /\ ~ok]
    /\ resp' = [resp EXCEPT ![h] = NoResp]
    /\ pc' = [pc EXCEPT ![h] =
                CASE pc[h] = "send_bad_request" -> AfterBadRequest
                  [] pc[h] = "send_429" -> AfterReject
                  [] pc[h] = "send_502" -> AfterUpstreamError
                  [] pc[h] = "relay" -> AfterRelay]
    /\ UNCHANGED <<alive, rates, admitted>>
    /\ UNCHANGED shared
    /\ UNCHANGED <<ip, scanIdx, cnt, chosen, noneAlive, conn, nreq, fwd, got,
                   connErr, fails, held>>

----------------------------------------------------------------------------

Next ==
    \/ AcceptConn
    \/ HcWake
    \/ HcProbe
    \/ HcLoop
    \/ ResetRates
    \/ \E h \in Conns : CheckKey(h)
    \/ \E h \in Conns : InsertKey(h)
    \/ \E h \in Conns : ScanStep(h)
    \/ \E h \in Conns : Pick(h)
    \/ \E h \in Conns : Connect(h)
    \/ \E h \in Conns : AllDown(h)
    \/ \E h \in Conns : ReadRequest(h)
    \/ \E h \in Conns : CheckRate(h)
    \/ \E h \in Conns : Forward(h)
    \/ \E h \in Conns : ReadResponse(h)
    \/ \E h \in Conns : SendResponse(h)

Spec == Init /\ [][Next]_vars

Handler(h) ==
    \/ CheckKey(h)
    \/ InsertKey(h)
    \/ ScanStep(h)
    \/ Pick(h)
    \/ Connect(h)
    \/ AllDown(h)
    \/ ReadRequest(h)
    \/ CheckRate(h)
    \/ Forward(h)
    \/ ReadResponse(h)
    \/ SendResponse(h)

\* The rate limiter with the listener and the handlers, while the health
\* checker sleeps.
NextLimiter ==
    \/ AcceptConn
    \/ ResetRates
    \/ \E h \in Conns : Handler(h)

SpecLimiter == Init /\ [][NextLimiter]_vars

\* The health checker with the listener and the handlers, the limiter being
\* disabled (max_requests_per_minute = 0, the default of line 44).
NextHealth ==
    \/ AcceptConn
    \/ HcWake
    \/ HcProbe
    \/ HcLoop
    \/ \E h \in Conns : Handler(h)

InitHealth == Init /\ threshold = 0

SpecHealth == InitHealth /\ [][NextHealth]_vars

\* The health checker with the listener and the handlers up to the return of
\* connect_to_upstream at line 302, with the answer of lines 304-307 when it
\* fails: the serving loops are not run.
NextSelect ==
    \/ AcceptConn
    \/ HcWake
    \/ HcProbe
    \/ HcLoop
    \/ \E h \in Conns : CheckKey(h)
    \/ \E h \in Conns : InsertKey(h)
    \/ \E h \in Conns : ScanStep(h)
    \/ \E h \in Conns : Pick(h)
    \/ \E h \in Conns : Connect(h)
    \/ \E h \in Conns : AllDown(h)

SpecSelect == InitHealth /\ [][NextSelect]_vars

\* The upstream server u settles: from now on it refuses every connection,
\* or it accepts every connection and answers every probe with 200.
Settle(u) ==
    /\ UNCHANGED dvars
    /\ server[u] = "any"
    /\ \E m \in {"down", "healthy"} : server' = [server EXCEPT ![u] = m]
    /\ UNCHANGED <<threshold, alive, rates, listener, hcPc, hcIdx, probed, resetPc,
                   admitted, bgHeld>>
    /\ UNCHANGED hvars

\* lines 149-158: the accept loop while no connection has been accepted
AcceptFirst == pc[1] = "unborn" /\ AcceptConn

\* The health checker, upstream servers that settle, and the first
\* connection's handler up to the return of connect_to_upstream.  The delay
\* of line 163 elapses, a probe that has started ends (lines 169-216), and a
\* connect that has started ends (line 243): tokio runs every task that can
\* go on.
NextSettle ==
    \/ AcceptFirst
    \/ HcWake
    \/ HcProbe
    \/ HcLoop
    \/ \E u \in Upstreams : Settle(u)
    \/ CheckKey(1)
    \/ InsertKey(1)
    \/ ScanStep(1)
    \/ Pick(1)
    \/ Connect(1)
    \/ AllDown(1)

SpecSettle ==
    /\ InitHealth
    /\ [][NextSettle]_vars
    /\ WF_vars(HcWake) /\ WF_vars(HcProbe) /\ WF_vars(HcLoop)
    /\ WF_vars(Connect(1))

----------------------------------------------------------------------------
(* deet: Debugger::run, debugger.rs lines 56-149, with Inferior::new,
   continue_run, kill and wait of inferior.rs.  One command is one step. *)

\* inferior.rs lines 104-110: what starting the process can come to: spawn
\* fails; the child stops with SIGTRAP; the first wait reports that it has
\* exited or was killed by a signal; the first wait reports a stop with
\* another signal
StartResults == {"spawn_fail", "trap", "ended", "other_stop"}

\* inferior.rs lines 166-176: the Status a wait after ptrace::cont returns
Statuses == {"exited", "signaled", "stopped"}

\* a process that exists and is stopped under trace
Live(p) == child[p] = "stopped"

\* inferior.rs lines 128-133: child.kill() and the wait that reaps it
kill(c, p) == [c EXCEPT ![p] = "reaped"]

\* inferior.rs lines 106-110: the child after Inferior::new did not return it:
\* reaped by the wait when it has ended, left as it is when it is stopped
Unreturned(r) == IF r = "ended" THEN "reaped" ELSE "stopped"

\* inferior.rs lines 122-125: continue_run on process p with the status s
\* that the wait returns: the process is stopped again or reaped
continue_run(c, p, s) == [c EXCEPT ![p] = IF s = "stopped" THEN "stopped" ELSE "reaped"]

\* debugger.rs lines 59-95
Run ==
    /\ debugger = "prompt"
    /\ spawned < MaxRuns
    /\ IF inferior # 0 /\ ~Live(inferior)
       THEN \* line 61: kill() of a process that is gone panics (inferior.rs 129)
            /\ debugger' = "panicked"
            /\ UNCHANGED <<inferior, child, spawned>>
       ELSE LET c == IF inferior # 0 THEN kill(child, inferior) ELSE child
                p == spawned + 1
            IN \E r \in StartResults :
                 CASE r = "spawn_fail" ->
                        /\ child' = c
                        /\ UNCHANGED <<debugger, inferior, spawned>>
                   [] r \in {"ended", "other_stop"} ->
                        /\ child' = [c EXCEPT ![p] = Unreturned(r)]
                        /\ spawned' = p
                        /\ UNCHANGED <<debugger, inferior>>
                   [] r = "trap" ->
                        /\ spawned' = p
                        /\ \E st \in Statuses :
                             /\ child' = continue_run(c, p, st)
                             /\ inferior' = IF st = "stopped" THEN p ELSE 0
                        /\ UNCHANGED debugger
    /\ UNCHANGED breakpoints
    /\ UNCHANGED bbvars

\* debugger.rs lines 96-114
Cont ==
    /\ debugger = "prompt"
    /\ IF inferior = 0
       THEN UNCHANGED <<debugger, inferior, child>>
       ELSE IF ~Live(inferior)
            THEN \* line 101: ptrace::cont fails on a process that is gone, unwrap
                 /\ debugger' = "panicked"
                 /\ UNCHANGED <<inferior, child>>
            ELSE \E st \in Statuses :
                   /\ child' = continue_run(child, inferior, st)
                   /\ inferior' = IF st = "stopped" THEN inferior ELSE 0
                   /\ UNCHANGED debugger
    /\ UNCHANGED <<spawned, breakpoints>>
    /\ UNCHANGED bbvars

\* debugger.rs lines 115-125 with print_backtrace, inferior.rs lines 141-162:
\* the unwraps of getregs and of the lookups panic or the trace is printed
Back ==
    /\ debugger = "prompt"
    /\ IF inferior = 0
       THEN UNCHANGED debugger
       ELSE IF ~Live(inferior)
            THEN debugger' = "panicked"
            ELSE \E resolved \in BOOLEAN :
                   debugger' = IF resolved THEN "prompt" ELSE "panicked"
    /\ UNCHANGED <<inferior, child, spawned, breakpoints>>
    /\ UNCHANGED bbvars

\* debugger.rs lines 126-140: an argument without "*" or not a hex number
\* panics (lines 129, 131); else the address is pushed if it is new
Break ==
    /\ debugger = "prompt"
    /\ \/ /\ debugger' = "panicked"
          /\ UNCHANGED breakpoints
       \/ \E a \in Addrs :
            /\ breakpoints' = breakpoints \cup {a}
            /\ UNCHANGED debugger
    /\ UNCHANGED <<inferior, child, spawned>>
    /\ UNCHANGED bbvars

\* debugger.rs lines 141-146
Quit ==
    /\ debugger = "prompt"
    /\ IF inferior = 0
       THEN debugger' = "returned" /\ UNCHANGED child
       ELSE IF ~Live(inferior)
            THEN debugger' = "panicked" /\ UNCHANGED child
            ELSE debugger' = "returned" /\ child' = kill(child, inferior)
    /\ UNCHANGED <<inferior, spawned, breakpoints>>
    /\ UNCHANGED bbvars

NextDeet == Run \/ Cont \/ Back \/ Break \/ Quit

SpecDeet == Init /\ [][NextDeet]_vars

----------------------------------------------------------------------------
(* Properties *)

Born(h) == pc[h] # "unborn"

\* connection h is the only one accepted from its address
Sole(h) == \A g \in Conns : (g # h /\ Born(g)) => ip[g] # ip[h]

IsRelay(r) == r.from # 0

\* the responses of upstream origin passed to send_response on connection h
Relays(h) == SelectSeq(sent[h], IsRelay)

\* the responses passed to send_response in answer to request n of h
SentFor(h, n) == LET Answers(r) == r.req = n IN SelectSeq(sent[h], Answers)

Last(q) == q[Len(q)]

\* C1: with a threshold T > 0, at most T calls of update_rate_and_check for
\* one client address return true between two consecutive resets of the rate
\* map, over all connections of that address.
C1_AtMostTPerWindow ==
    threshold > 0 => \A i \in IPs : admitted[i] <= threshold

\* C2: the reset task is a cycle: from its sleep it resets the counts and is
\* then asleep again, for ever.
C2_ResetRecurs == [][resetPc = "sleep" => resetPc' = "sleep"]_vars

\* C3: with max_requests_per_minute = 0 every request is admitted, no 429 is
\* produced, and no count of the rate map is changed by the admission step.
C3_DisabledAdmitsAll ==
    threshold = 0 =>
        /\ \A h \in Conns :
             /\ pc[h] # "send_429"
             /\ resp[h].st # 429
             /\ \A k \in 1..Len(sent[h]) : sent[h][k].st # 429
        /\ \A k \in DOMAIN rates : rates[k] = 0

C3_Witness == threshold = 0 /\ \E h \in Conns : Len(fwd[h]) = MaxReqs

\* C4: connect_to_upstream attempts a connection only to an upstream whose
\* flag read alive when it was drawn, and while no upstream has been flagged
\* alive since its scan began it attempts none: it is scanning or has
\* returned the error.
C4_OnlyLiveCandidates ==
    /\ [][\A h \in Conns :
            (pc'[h] = "connect" /\ pc[h] # "connect") => alive[chosen'[h]]]_vars
    /\ [](\A h \in Conns :
            noneAlive[h] => /\ pc[h] \in {"scan", "all_down", "closed"}
                            /\ pc[h] = "scan" => cnt[h] = 0
                            /\ conn[h] = 0)

C4_Witness ==
    \E h, g \in Conns :
        /\ pc[h] = "all_down" /\ noneAlive[h]
        /\ pc[g] = "connect" /\ \E u \in Upstreams : ~alive[u]

\* C5 as stated: when a probe cycle ends, every upstream whose probe got a 200
\* is flagged alive and every other one is flagged dead.
C5_CycleVerdicts ==
    [][(hcPc = "probe" /\ hcPc' = "cycle_end") =>
         \A u \in Upstreams : /\ probed'[u] = "ok" => alive'[u]
                              /\ probed'[u] = "fail" => ~alive'[u]]_vars

\* C5 amended: the write that ends a probe sets the flag alive exactly when
\* the probe got a 200, whatever the flag was; at the end of the cycle every
\* upstream whose probe did not get a 200 is flagged dead.
C5_ProbeWritesVerdict ==
    /\ [][(hcPc = "probe" /\ probed' # probed) =>
            alive'[hcIdx] = (probed'[hcIdx] = "ok")]_vars
    /\ [](hcPc = "cycle_end" =>
            \A u \in Upstreams : probed[u] = "fail" => ~alive[u])

C5_Witness ==
    /\ hcPc = "cycle_end"
    /\ probed[1] = "ok" /\ alive[1]
    /\ probed[2] = "fail" /\ ~alive[2]
    /\ \E h \in Conns : pc[h] = "closed" /\ conn[h] = 0

\* C6: a connection for which connect_to_upstream found every upstream dead
\* is answered with exactly one 502, has no request read or forwarded, and
\* its handler ends closed.
C6_AllDownAnswered ==
    /\ [][\A h \in Conns :
            pc[h] = "all_down" => pc'[h] \in {"all_down", "closed"}]_vars
    /\ [](\A h \in Conns :
            /\ pc[h] = "all_down" => sent[h] = <<>> /\ fwd[h] = <<>> /\ conn[h] = 0
            /\ (conn[h] = 0 /\ pc[h] = "closed") =>
                   /\ sent[h] = <<make_http_error(502, 0)>>
                   /\ fwd[h] = <<>>
                   /\ nreq[h] = 0)

C6_Witness ==
    \E h \in Conns :
        /\ pc[h] = "closed" /\ conn[h] = 0 /\ Len(sent[h]) = 1
        /\ \A u \in Upstreams : ~alive[u]

\* C7: a request the limiter rejects is answered 429, is not written to the
\* upstream, and the handler then reads the next request on the same
\* connection; on the only connection of an address, before any reset, the
\* rejected request is the one after threshold admitted ones.
C7_RejectKeepsConnection ==
    /\ [][\A h \in Conns : pc[h] = "send_429" =>
            /\ fwd'[h] = fwd[h]
            /\ \/ pc'[h] = "send_429" /\ sent'[h] = sent[h]
               \/ /\ pc'[h] = "read_req"
                  /\ sent'[h] = Append(sent[h], make_http_error(429, nreq[h]))]_vars
    /\ [](\A h \in Conns :
            /\ \A k \in 1..Len(sent[h]) :
                 sent[h][k].st = 429 =>
                     \A j \in 1..Len(fwd[h]) : fwd[h][j] # sent[h][k].req
            /\ (pc[h] = "send_429" /\ Sole(h) /\ resetPc = "sleep") =>
                   admitted[ip[h]] = threshold)

C7_Witness ==
    \E h \in Conns :
        /\ pc[h] = "read_req"
        /\ fwd[h] = <<1>>
        /\ Len(sent[h]) = 2 /\ Last(sent[h]) = make_http_error(429, 2)

\* C8: on one connection the response to every forwarded request is read and
\* relayed before the next request is read, and the k-th response relayed is
\* the upstream's answer to the k-th request forwarded.
C8_OrderedPairs ==
    \A h \in Conns :
        LET rel == Relays(h) IN
        /\ Len(rel) <= Len(fwd[h])
        /\ \A k \in 1..Len(rel) : rel[k].req = fwd[h][k] /\ rel[k].from = conn[h]
        /\ pc[h] \in {"read_req", "check_rate", "forward"} => Len(rel) = Len(fwd[h])

C8_Witness ==
    \E h \in Conns : pc[h] = "read_req" /\ Len(Relays(h)) = 2

\* C9: the response passed to the client for a forwarded request whose
\* response was read from the upstream is that response, and the only one.
C9_RelayedVerbatim ==
    \A h \in Conns : \A k \in 1..Len(got[h]) :
        (k < Len(got[h]) \/ pc[h] # "relay") =>
            SentFor(h, got[h][k].req) = <<got[h][k]>>

C9_Witness ==
    \E h \in Conns :
        /\ pc[h] = "read_req" /\ Len(got[h]) = 2
        /\ got[h][1].st = 500 /\ got[h][2].st = 200

\* C10: whatever fails in a handler, and whatever the other tasks do, the
\* accept loop goes on: it is accepting, and a connection can be accepted.
C10_ListenerSurvives ==
    /\ listener = "accepting"
    /\ \A h \in Conns : pc[h] # "panicked"
    /\ (\E h \in Conns : pc[h] = "unborn") => ENABLED AcceptConn

C10_Witness ==
    /\ listener = "accepting"
    /\ \E h, g \in Conns :
         /\ pc[h] = "closed" /\ conn[h] # 0
         /\ sent[h] # <<>> /\ Last(sent[h]).st = 502
         /\ pc[g] = "unborn"
    /\ \E u \in Upstreams : ~alive[u]

\* C11 as stated: a connection error while reading a request is answered
\* with a 503 response to the client.
C11_ConnErrorAnswered503 ==
    \A h \in Conns : connErr[h] => sent[h] # <<>> /\ Last(sent[h]).st = 503

\* C11 amended: on a connection error while reading a request the handler
\* returns at once: the step sends nothing and forwards nothing, the handler
\* is closed afterwards, and no 503 is ever sent on the connection.
C11_ConnErrorDropsConnection ==
    /\ [][\A h \in Conns :
            (~connErr[h] /\ connErr'[h]) =>
                /\ pc[h] = "read_req" /\ pc'[h] = "closed"
                /\ sent'[h] = sent[h] /\ fwd'[h] = fwd[h] /\ nreq'[h] = nreq[h]]_vars
    /\ [](\A h \in Conns :
            /\ connErr[h] => pc[h] = "closed"
            /\ \A i \in 1..Len(sent[h]) : sent[h][i].st # 503)

C11_Witness ==
    \E h \in Conns : connErr[h] /\ nreq[h] >= 1 /\ sent[h] # <<>>

\* C12: a request that is malformed, incomplete, too large, or whose
\* Content-Length is invalid or does not match is answered with exactly one
\* error response, 413 when too large and 400 otherwise; the handler then
\* reads the next request on the same connection, the request is never
\* forwarded and the upstream connection is kept.
C12_BadRequestAnswered ==
    /\ [][\A h \in Conns :
            /\ (pc[h] = "read_req" /\ pc'[h] = "send_bad_request") =>
                  /\ resp'[h].st \in {400, 413} /\ resp'[h].req = nreq'[h]
                  /\ sent'[h] = sent[h] /\ fwd'[h] = fwd[h]
            /\ (pc[h] = "send_bad_request" /\ pc'[h] # pc[h]) =>
                  /\ sent'[h] = Append(sent[h], resp[h])
                  /\ pc'[h] = "read_req"
                  /\ fwd'[h] = fwd[h]
                  /\ conn[h] # 0 /\ conn'[h] = conn[h]]_vars
    /\ [](\A h \in Conns : \A i \in 1..Len(sent[h]) :
            sent[h][i].st \in {400, 413} =>
                /\ Len(SentFor(h, sent[h][i].req)) = 1
                /\ \A j \in 1..Len(fwd[h]) : fwd[h][j] # sent[h][i].req)

C12_Witness ==
    \E h \in Conns :
        /\ Len(sent[h]) = 2
        /\ sent[h][1].st \in {400, 413}
        /\ sent[h][2].from = conn[h] /\ conn[h] # 0

\* C13 as stated: after the write of a relayed response to the client has
\* failed, the handler reads no further request and forwards nothing more.
C13_LostRelayEndsSession ==
    [][\A h \in Conns :
         relayLost[h] => nreq'[h] = nreq[h] /\ fwd'[h] = fwd[h]]_vars

\* a failed connect of handler h on upstream u, with the write of line 247
FailedConnect(h, u) == pc[h] = "connect" /\ chosen[h] = u /\ pc'[h] = "scan"

\* the health checker's write of the flag of upstream u
ProbeWrite(u) == hcPc = "probe" /\ hcIdx = u /\ probed[u] = "none" /\ probed'[u] # "none"

\* C14 as stated: only the health checker changes a liveness flag.
C14_CheckerSoleWriter ==
    [][\A u \in Upstreams : alive'[u] # alive[u] => ProbeWrite(u)]_vars

\* C14 amended: a liveness flag is changed either by the health checker's
\* write for the upstream it has just probed, or by a connection handler
\* whose connect to that upstream failed, and then from alive to dead.
C14_TwoWriters ==
    [][\A u \in Upstreams :
         alive'[u] # alive[u] =>
             \/ ProbeWrite(u)
             \/ ~alive'[u] /\ \E h \in Conns : FailedConnect(h, u)]_vars

C14_Witness ==
    \E u, v \in Upstreams :
        /\ probed[u] = "fail" /\ ~alive[u]
        /\ probed[v] = "none" /\ ~alive[v]
        /\ \E h \in Conns : fails[h] > 0

\* C15: a flag goes from dead to alive only in the health checker's step for
\* that upstream, and only when the probe got a well-formed response with
\* status 200; no handler step and no failed probe turns a flag alive.
C15_RevivedOnlyBy200 ==
    [][\A u \in Upstreams :
         (~alive[u] /\ alive'[u]) =>
             /\ ProbeWrite(u) /\ probed'[u] = "ok"
             /\ \A h \in Conns : pc'[h] = pc[h]]_vars

C15_Witness ==
    \E h \in Conns :
        /\ pc[h] = "connect" /\ fails[h] = NumUpstreams
        /\ alive[chosen[h]] /\ probed[chosen[h]] = "ok"

\* C16 as stated: once the health checker has written an upstream's flag in
\* a cycle, the flag is not written again before the cycle ends.
C16_OneWritePerCycle ==
    [][\A u \in Upstreams :
         (probed[u] # "none" /\ probed'[u] # "none") => alive'[u] = alive[u]]_vars

\* C16 amended: in a cycle the health checker writes the flags in
\* registration order, each exactly once; any other change of a flag in the
\* cycle is a handler's failed connect turning it dead.
C16_CheckerWritesOncePerCycle ==
    /\ [](/\ hcPc = "sleep" => \A u \in Upstreams : probed[u] = "none"
          /\ hcPc = "probe" => \A u \in Upstreams : probed[u] # "none" <=> u < hcIdx
          /\ hcPc = "cycle_end" => \A u \in Upstreams : probed[u] # "none")
    /\ [][\A u \in Upstreams :
            /\ (probed[u] # "none" /\ probed'[u] # "none") =>
                  /\ probed'[u] = probed[u]
                  /\ alive'[u] # alive[u] =>
                        ~alive'[u] /\ \E h \in Conns : FailedConnect(h, u)
            /\ (probed[u] = "none" /\ probed'[u] # "none") =>
                  /\ ProbeWrite(u)
                  /\ alive'[u] = (probed'[u] = "ok")]_vars

C16_Witness ==
    /\ hcPc = "cycle_end"
    /\ \E u \in Upstreams : probed[u] = "ok" /\ ~alive[u]
    /\ \E h \in Conns : pc[h] = "scan" /\ fails[h] > 0

\* C17 as stated: a call of connect_to_upstream has at most as many failed
\* connect attempts as there are upstreams, also with the health checker
\* running.
C17_AtMostNFailedAttempts == \A h \in Conns : fails[h] <= NumUpstreams

\* the serving loop of handle_connection, lines 314-389
Serving == {"read_req", "check_rate", "forward", "read_resp", "relay",
            "send_bad_request", "send_429", "send_502"}

\* C18: a failed write of a request to the upstream, or a failed read of its
\* response, makes the handler send one 502 and end closed; no step of the
\* serving loop goes back to selecting or connecting an upstream, changes the
\* upstream connection, or changes a liveness flag.
C18_UpstreamErrorEndsSession ==
    [][\A h \in Conns :
         /\ (pc[h] \in {"forward", "read_resp"} /\ pc'[h] = "send_502") =>
               /\ resp'[h] = make_http_error(502, nreq[h])
               /\ sent'[h] = sent[h] /\ fwd'[h] = fwd[h] /\ got'[h] = got[h]
         /\ (pc[h] = "send_502" /\ pc'[h] # pc[h]) =>
               /\ pc'[h] = "closed"
               /\ sent'[h] = Append(sent[h], resp[h]) /\ resp[h].st = 502
         /\ pc[h] = "closed" => pc'[h] = "closed" /\ sent'[h] = sent[h]
         /\ pc[h] \in Serving =>
               /\ pc'[h] \in Serving \cup {"closed", "panicked"}
               /\ conn'[h] = conn[h] /\ chosen'[h] = chosen[h]
         /\ (pc[h] \in Serving /\ pc'[h] # pc[h]) => alive' = alive]_vars

C18_Witness ==
    \E h \in Conns :
        /\ pc[h] = "closed" /\ conn[h] # 0
        /\ Len(fwd[h]) = 2 /\ Len(got[h]) = 1
        /\ Last(sent[h]) = make_http_error(502, 2)
        /\ \E u \in Upstreams : u # conn[h] /\ alive[u]

\* C19: once a handler has its upstream connection it keeps it for the whole
\* session: the upstream never changes, requests are forwarded only once it
\* is there, and every response comes from it, also while it is flagged dead
\* and another upstream is flagged alive.
C19_OneUpstreamPerConnection ==
    /\ [][\A h \in Conns : conn[h] # 0 => conn'[h] = conn[h]]_vars
    /\ [](\A h \in Conns :
            /\ (fwd[h] # <<>> \/ pc[h] \in Serving) => conn[h] \in Upstreams
            /\ \A i \in 1..Len(got[h]) : got[h][i].from = conn[h])

C19_Witness ==
    \E h \in Conns :
        /\ pc[h] = "relay" /\ Len(got[h]) = 2
        /\ ~alive[conn[h]]
        /\ \E u \in Upstreams : u # conn[h] /\ alive[u]

C21_CountOnlyResetDecreases ==
    [][\A k \in DOMAIN rates :
         rates'[k] < rates[k] => resetPc = "sleep" /\ resetPc' = AfterReset]_vars

\* C22: a handler in its serving loop has an entry for its IP in the rate
\* map, entries are never removed, and so the lookup of
\* update_rate_and_check never fails.
C22_EntryPresent ==
    /\ [](\A h \in Conns :
            /\ pc[h] \in Serving => ip[h] \in DOMAIN rates
            /\ pc[h] # "panicked")
    /\ [][DOMAIN rates \subseteq DOMAIN rates']_vars

C22_Witness ==
    /\ threshold > 0 /\ resetPc = AfterReset
    /\ \E h, g \in Conns :
          /\ pc[h] = "forward" /\ rates[ip[h]] = 1 /\ nreq[h] = 2
          /\ pc[g] = "insert" /\ ip[g] # ip[h]

\* C23: an upstream whose server has come to refuse every connection is in
\* the end flagged dead for good and no handler is connecting to it; an
\* upstream whose server has come to accept every connection and answer
\* every probe with 200 is in the end flagged alive for good.
C23_FlagsFollowServers ==
    \A u \in Upstreams :
        /\ [](server[u] = "down" =>
                <>[](/\ ~alive[u]
                     /\ \A h \in Conns : ~(pc[h] = "connect" /\ chosen[h] = u)))
        /\ [](server[u] = "healthy" => <>[]alive[u])

C23_Witness ==
    \E u, v \in Upstreams :
        /\ server[u] = "down" /\ ~alive[u] /\ probed[u] = "fail"
        /\ server[v] = "healthy" /\ alive[v] /\ probed[v] = "ok"
        /\ conn[1] = v

\* C24 as stated: between commands, an inferior the Debugger holds is a
\* process that exists and is stopped under trace.
C24_HeldInferiorIsLive ==
    (debugger = "prompt" /\ inferior # 0) => Live(inferior)

\* C25 as stated: at most one inferior process exists at any time, and none
\* once the debugger has returned from Quit.
C25_AtMostOneInferior ==
    /\ Cardinality({p \in Pids : Live(p)}) <= 1
    /\ debugger = "returned" => \A p \in Pids : ~Live(p)

====
